---- MODULE Spec2Model ----
(***************************************************************************)
(* The Markov chain engine of the bot: the markov_chain table, the         *)
(* ingestion transaction of handleCrawlingCommand, the two generation      *)
(* functions generateMarkovSentence and generateResponseFromMessage, and   *)
(* the statistics query.                                                   *)
(*                                                                         *)
(* Node.js runs every handler to completion on one thread and              *)
(* better-sqlite3 is synchronous, so each handler is one action.  The      *)
(* random draws (ORDER BY RANDOM(), Math.random()) and the storage faults  *)
(* are the nondeterminism of the actions.  The Japanese reply strings of   *)
(* the source are written here as ASCII names.                             *)
(*                                                                         *)
(* Spec takes each handler as one action.  SpecNodes and SpecScenario are  *)
(* the same handlers over other messages.  SpecInterleave takes the crawl  *)
(* and the generation handler step by step, from await to await.           *)
(* SpecVoice is the voice channel management: the voiceStateUpdate handler *)
(* and the periodic check of the muted users.  SpecBot is the dispatch of  *)
(* the slash commands and the automatic responses to messages.             *)
(***************************************************************************)
EXTENDS Integers, Sequences, FiniteSets, Bags, TLC

VARIABLES
    tokenizer,      \* FALSE while `let tokenizer` is still undefined
    markov_chain,   \* the rows of table markov_chain, a bag of <<prefix1, prefix2, suffix>>
    call,           \* the last operation and its inputs
    reply,          \* what that operation returned or replied
    \* the handlers step by step, between their awaits
    running,        \* the handler the thread is executing, "none" between two awaits
    crawlTask,      \* handleCrawlingCommand: where it is, its batch, its transaction
    generateTask,   \* handleGenerateCommand: where it is, its walk, and for each of
                    \* its reads the table it saw and the committed table
    committed,      \* the table as the last COMMIT left it
    \* the voice channel management
    userMuteStartTime,  \* the Map of line 69 for one user: no entry, or the minutes
                        \* since the entry's timestamp, counted up to MuteLimit
    voiceState,     \* the user's voice state in their guild
    guilds,         \* how many guilds client.guilds.cache holds
    inactiveChannel,\* the user's guild has the channel INACTIVE_CHANNEL_ID
    mutedFor,       \* how long the user has stayed muted in a channel other than
                    \* the inactive one, in minutes up to MuteLimit; -1: they are not
    setChannel,     \* the last step called voiceState.setChannel(inactiveChannel)
    lastMuted,      \* minutes since the user's mute flag last went from off to
                    \* on, up to MuteLimit; -1: it never did
    \* the slash commands and the automatic responses
    autoResponseMode,   \* `let autoResponseMode` of line 72
    timers,         \* the callbacks setTimeout holds, one record for each
    adminUserId     \* process.env.ADMIN_USER_ID, "" when it is not set

engineVars == <<tokenizer, markov_chain, call, reply>>
taskVars == <<running, crawlTask, generateTask, committed>>
voiceVars ==
    <<userMuteStartTime, voiceState, guilds, inactiveChannel, mutedFor,
      setChannel, lastMuted>>
botVars == <<autoResponseMode, timers, adminUserId>>
besideEngine == <<taskVars, voiceVars, botVars>>
vars == <<engineVars, taskVars, voiceVars, botVars>>

----------------------------------------------------------------------------
(* Bounds of the model *)

\* longest batch of messages one crawl hands to the transaction
MaxBatchLen == 2
\* how many insertStmt.run calls of one transaction may throw
MaxInsertFaults == 1
\* largest maxWords a generation call is given
MaxWords == 3
\* largest number of guilds the bot is in
MaxGuilds == 2

----------------------------------------------------------------------------
(* Tokenizer (kuromoji, an external library): a table over the message     *)
(* contents of the model.  A token carries its surface_form.               *)

Tok(w) == [surface_form |-> w]

\* the message contents a crawl draws from: empty, one token, one the
\* tokenizer throws on, three tokens, five tokens with an empty surface form
Texts ==
    { "", "hi", "?bad", "I like cats", " I like I like" }

\* the input phrases of seeded generation
InputTexts ==
    Texts \cup { "oh no", "like I" }

\* tokenizer.tokenize(text): the tokens, or a thrown error
Tokenize(text) ==
    CASE text = "hi"             -> [threw |-> FALSE, tokens |-> <<Tok("hi")>>]
      [] text = "?bad"           -> [threw |-> TRUE,  tokens |-> <<>>]
      [] text = "I like cats"    -> [threw |-> FALSE,
                                     tokens |-> <<Tok("I"), Tok("like"), Tok("cats")>>]
      [] text = "oh no"          -> [threw |-> FALSE, tokens |-> <<Tok("oh"), Tok("no")>>]
      [] text = "like I"         -> [threw |-> FALSE, tokens |-> <<Tok("like"), Tok("I")>>]
      [] text = " I like I like" -> [threw |-> FALSE,
                                     tokens |-> <<Tok(""), Tok("I"), Tok("like"),
                                                  Tok("I"), Tok("like")>>]
      [] text = "I like dogs"    -> [threw |-> FALSE,
                                     tokens |-> <<Tok("I"), Tok("like"), Tok("dogs")>>]
      [] text = "I like birds"   -> [threw |-> FALSE,
                                     tokens |-> <<Tok("I"), Tok("like"), Tok("birds")>>]
      [] text = "I like"         -> [threw |-> FALSE, tokens |-> <<Tok("I"), Tok("like")>>]
      [] text = "ab c d"         -> [threw |-> FALSE,
                                     tokens |-> <<Tok("ab"), Tok("c"), Tok("d")>>]
      [] text = "a bc d"         -> [threw |-> FALSE,
                                     tokens |-> <<Tok("a"), Tok("bc"), Tok("d")>>]
      [] OTHER                   -> [threw |-> FALSE, tokens |-> <<>>]

\* tokens.map((t: any) => t.surface_form)
SurfaceForms(tokens) == [i \in 1..Len(tokens) |-> tokens[i].surface_form]

----------------------------------------------------------------------------
(* Chain store: table markov_chain with UNIQUE(prefix1, prefix2, suffix)   *)

\* the distinct rows of a table
Rows(tbl) == BagToSet(tbl)

\* INSERT without the UNIQUE constraint's conflict check: always adds the row
PlainInsert(tbl, row) ==
    [tbl |-> tbl (+) SetToBag({row}), changes |-> 1]

\* INSERT OR REPLACE under UNIQUE(prefix1, prefix2): the new row takes the
\* place of the rows of the same prefix pair
InsertOrReplace(tbl, row) ==
    [tbl |-> SetToBag({ r \in Rows(tbl) : <<r[1], r[2]>> # <<row[1], row[2]>> } \cup {row}),
     changes |-> 1]

\* insertStmt.run(p1, p2, s) of "INSERT OR IGNORE INTO markov_chain ...":
\* a row the UNIQUE constraint rejects is ignored, changes = 0
InsertOrIgnore(tbl, row) ==
    IF BagIn(row, tbl)
    THEN [tbl |-> tbl, changes |-> 0]
    ELSE [tbl |-> tbl (+) SetToBag({row}), changes |-> 1]

----------------------------------------------------------------------------
(* Ingestion: the transaction of handleCrawlingCommand                     *)

\* the fault plans of one crawl: BEGIN throws, the k-th insertStmt.run call
\* throws (k in insert), COMMIT throws
CrawlFaults(calls) ==
    { f \in [begin : BOOLEAN, insert : SUBSET (1..calls), commit : BOOLEAN] :
        /\ Cardinality(f.insert) <= MaxInsertFaults
        /\ f.begin => (f.insert = {} /\ ~f.commit) }

\* for (let i = 0; i < words.length - 2; i++) { ... } of one message;
\* st = [tbl, insertedChains, calls, runs, threw], where calls counts the
\* insertStmt.run calls of the transaction and runs lists the rows of those
\* that returned; i is 1-based here
RECURSIVE WindowLoop(_, _, _, _)
WindowLoop(st, words, i, insertFaults) ==
    IF i > Len(words) - 2
    THEN st
    ELSE IF words[i] # "" /\ words[i + 1] # "" /\ words[i + 2] # ""
         THEN LET k == st.calls + 1 IN
              IF k \in insertFaults
              THEN [st EXCEPT !.calls = k, !.threw = TRUE]
              ELSE LET result == InsertOrIgnore(st.tbl, <<words[i], words[i + 1], words[i + 2]>>)
                   IN  WindowLoop([tbl            |-> result.tbl,
                                   insertedChains |-> IF result.changes > 0
                                                      THEN st.insertedChains + 1
                                                      ELSE st.insertedChains,
                                   calls          |-> k,
                                   runs           |-> Append(st.runs,
                                                        <<words[i], words[i + 1], words[i + 2]>>),
                                   threw          |-> FALSE],
                                  words, i + 1, insertFaults)
         ELSE WindowLoop(st, words, i + 1, insertFaults)

\* for (const msg of messages) { ... } of the transaction body;
\* st = [tbl, processedMessages, insertedChains, calls, runs]; m is 1-based here.
\* The try of lines 380-398 encloses tokenize and insertStmt.run alike.
RECURSIVE MessageLoop(_, _, _, _)
MessageLoop(st, messages, m, insertFaults) ==
    IF m > Len(messages)
    THEN st
    ELSE LET content == messages[m] IN
         IF content = ""
         THEN MessageLoop(st, messages, m + 1, insertFaults)
         ELSE LET t == Tokenize(content) IN
              IF t.threw
              THEN MessageLoop(st, messages, m + 1, insertFaults)
              ELSE LET words == SurfaceForms(t.tokens) IN
                   IF Len(words) < 3
                   THEN MessageLoop(st, messages, m + 1, insertFaults)
                   ELSE LET w == WindowLoop([tbl            |-> st.tbl,
                                             insertedChains |-> st.insertedChains,
                                             calls          |-> st.calls,
                                             runs           |-> st.runs,
                                             threw          |-> FALSE],
                                            words, 1, insertFaults)
                        IN  MessageLoop([tbl               |-> w.tbl,
                                         processedMessages |-> IF w.threw
                                                               THEN st.processedMessages
                                                               ELSE st.processedMessages + 1,
                                         insertedChains    |-> w.insertedChains,
                                         calls             |-> w.calls,
                                         runs              |-> w.runs],
                                        messages, m + 1, insertFaults)

\* the transaction with tokenizer.tokenize outside the try of lines 380-398:
\* its throw leaves the transaction function, which rolls back
TransactionTokenizerAborts(tbl, messages, faults) ==
    IF faults.begin \/ \E m \in DOMAIN messages :
                         messages[m] # "" /\ Tokenize(messages[m]).threw
    THEN [tbl |-> tbl, committed |-> FALSE, processedMessages |-> 0,
          insertedChains |-> 0, runs |-> <<>>]
    ELSE LET st == MessageLoop([tbl |-> tbl, processedMessages |-> 0,
                                insertedChains |-> 0, calls |-> 0, runs |-> <<>>],
                               messages, 1, faults.insert)
         IN  IF faults.commit
             THEN [tbl |-> tbl, committed |-> FALSE, processedMessages |-> 0,
                   insertedChains |-> 0, runs |-> st.runs]
             ELSE [tbl |-> st.tbl, committed |-> TRUE,
                   processedMessages |-> st.processedMessages,
                   insertedChains |-> st.insertedChains, runs |-> st.runs]

\* db.transaction(fn)(allMessages): BEGIN, the body, COMMIT; a throw out of
\* BEGIN or COMMIT leaves the table as it was and reaches the outer catch
Transaction(tbl, messages, faults) ==
    IF faults.begin
    THEN [tbl |-> tbl, committed |-> FALSE, processedMessages |-> 0,
          insertedChains |-> 0, runs |-> <<>>]
    ELSE LET st == MessageLoop([tbl |-> tbl, processedMessages |-> 0,
                                insertedChains |-> 0, calls |-> 0, runs |-> <<>>],
                               messages, 1, faults.insert)
         IN  IF faults.commit
             THEN [tbl |-> tbl, committed |-> FALSE, processedMessages |-> 0,
                   insertedChains |-> 0, runs |-> st.runs]
             ELSE [tbl |-> st.tbl, committed |-> TRUE,
                   processedMessages |-> st.processedMessages,
                   insertedChains |-> st.insertedChains, runs |-> st.runs]

\* the batches a crawl can fetch
RECURSIVE SeqsUpTo(_, _)
SeqsUpTo(S, n) ==
    IF n = 0 THEN {<<>>}
    ELSE LET shorter == SeqsUpTo(S, n - 1)
         IN  shorter \cup {Append(s, x) : s \in shorter, x \in S}

Batches == SeqsUpTo(Texts, MaxBatchLen)


\* how many times a fault-free transaction over the batch calls insertStmt.run
InsertCalls(messages) ==
    MessageLoop([tbl |-> EmptyBag, processedMessages |-> 0,
                 insertedChains |-> 0, calls |-> 0, runs |-> <<>>],
                messages, 1, {}).calls

----------------------------------------------------------------------------
(* Store reads: dbGet and dbAll catch every error of the driver            *)

\* what dbGet returns for "no row" and on an error
Null == <<>>

\* dbAll(query, params): the rows of the query, or [] on an error
dbAll(rows) ==
    { [rows |-> rows, fault |-> FALSE], [rows |-> {}, fault |-> TRUE] }

\* dbGet with a catch that runs the query once more and returns its row
dbGetRetries(rows) ==
    (IF rows = {}
     THEN { [row |-> Null, fault |-> FALSE], [row |-> Null, fault |-> TRUE] }
     ELSE { [row |-> r, fault |-> f] : r \in rows, f \in BOOLEAN })

\* dbGet(query, []): one of the rows of the query, null when there is none
\* or on an error
dbGet(rows) ==
    (IF rows = {}
     THEN { [row |-> Null, fault |-> FALSE] }
     ELSE { [row |-> r, fault |-> FALSE] : r \in rows })
    \cup { [row |-> Null, fault |-> TRUE] }

\* SELECT prefix1, prefix2 FROM markov_chain (ORDER BY RANDOM() LIMIT 1)
SelectStart(tbl) ==
    { <<r[1], r[2]>> : r \in Rows(tbl) }

\* SELECT suffix FROM markov_chain WHERE prefix1 = ? OR prefix2 = ?:
\* a query that matches on one prefix column only
SelectSuffixEitherPrefix(tbl, prefix1, prefix2) ==
    { r[3] : r \in { x \in Rows(tbl) : x[1] = prefix1 \/ x[2] = prefix2 } }

\* SELECT suffix FROM markov_chain WHERE prefix1 = ? AND prefix2 = ?
SelectSuffix(tbl, prefix1, prefix2) ==
    { r[3] : r \in { x \in Rows(tbl) : x[1] = prefix1 /\ x[2] = prefix2 } }

\* SELECT prefix1, prefix2 FROM markov_chain WHERE prefix1 = ? OR prefix2 = ?
SelectCandidates(tbl, p1, p2) ==
    { <<r[1], r[2]>> : r \in { x \in Rows(tbl) : x[1] = p1 \/ x[2] = p2 } }

\* sentence.join(' ')
RECURSIVE JoinWithSpaces(_)
JoinWithSpaces(words) ==
    IF words = <<>> THEN ""
    ELSE IF Tail(words) = <<>> THEN Head(words)
    ELSE Head(words) \o " " \o JoinWithSpaces(Tail(words))

\* sentence.join('')
RECURSIVE Join(_)
Join(words) ==
    IF words = <<>> THEN "" ELSE Head(words) \o Join(Tail(words))

----------------------------------------------------------------------------
(* Unseeded generation: generateMarkovSentence                             *)

\* the reply strings
NoData == "NO_DATA"                  \* line 207
ErrSentence == "ERROR_SENTENCE"      \* line 229
NotReady == "TOKENIZER_NOT_READY"    \* line 236
ErrResponse == "ERROR_RESPONSE"      \* line 302

\* the loop with i <= maxWords as its condition
RECURSIVE MarkovLoopInclusive(_, _, _, _, _, _)
MarkovLoopInclusive(tbl, sentence, prefix1, prefix2, i, maxWords) ==
    IF i > maxWords
    THEN { [sentence |-> sentence, fault |-> FALSE] }
    ELSE UNION {
           IF suffixes.rows = {}
           THEN { [sentence |-> sentence, fault |-> suffixes.fault] }
           ELSE UNION { MarkovLoopInclusive(tbl, Append(sentence, nextSuffix),
                                            prefix2, nextSuffix, i + 1, maxWords)
                        : nextSuffix \in suffixes.rows }
           : suffixes \in dbAll(SelectSuffix(tbl, prefix1, prefix2)) }

\* for (let i = 0; i < maxWords; i++) { ... }: every sentence the loop can
\* end with, and whether a read failed on the way
RECURSIVE MarkovLoop(_, _, _, _, _, _)
MarkovLoop(tbl, sentence, prefix1, prefix2, i, maxWords) ==
    IF i >= maxWords
    THEN { [sentence |-> sentence, fault |-> FALSE] }
    ELSE UNION {
           IF suffixes.rows = {}
           THEN { [sentence |-> sentence, fault |-> suffixes.fault] }
           ELSE UNION { MarkovLoop(tbl, Append(sentence, nextSuffix),
                                   prefix2, nextSuffix, i + 1, maxWords)
                        : nextSuffix \in suffixes.rows }
           : suffixes \in dbAll(SelectSuffix(tbl, prefix1, prefix2)) }

\* const startRow = dbGet(...) with the check of startRow left out: the
\* destructuring of null throws
StartRowUnchecked(startRow) ==
    [kind |-> "throw", threw |-> TRUE, ret |-> "", sentence |-> <<>>,
     fault |-> startRow.fault]

\* if (!startRow) { return NoData }
StartRowMissing(startRow) ==
    [kind |-> "no_data", threw |-> FALSE, ret |-> NoData, sentence |-> <<>>,
     fault |-> startRow.fault]

\* lines 205-226, the body of the try: every outcome
SentenceBody(tbl, maxWords) ==
    UNION {
      IF startRow.row = Null
      THEN { StartRowMissing(startRow) }
      ELSE { [kind |-> "sentence", threw |-> FALSE, ret |-> Join(w.sentence),
              sentence |-> w.sentence, fault |-> w.fault]
             : w \in MarkovLoop(tbl, <<startRow.row[1], startRow.row[2]>>,
                                startRow.row[1], startRow.row[2], 0, maxWords) }
      : startRow \in dbGet(SelectStart(tbl)) }

\* catch (error) { ...; return ErrSentence } of lines 227-230
CatchSentence(o) ==
    IF o.threw
    THEN [o EXCEPT !.kind = "error", !.threw = FALSE, !.ret = ErrSentence]
    ELSE o

\* every outcome of generateMarkovSentence(maxWords) on the table
generateMarkovSentence(tbl, maxWords) ==
    { CatchSentence(o) : o \in SentenceBody(tbl, maxWords) }

----------------------------------------------------------------------------
(* Seeded generation: generateResponseFromMessage                          *)

\* the rows of the first query of line 254, with [prefix1, prefix2] the last
\* two words of the input
FirstCandidates(tbl, words) ==
    LET prefix1 == words[Len(words) - 1]
        prefix2 == words[Len(words)]
    IN  SelectCandidates(tbl, prefix1, prefix2)

\* the rows of the query of line 260, with [word, word]
FindNodesContaining(tbl, word) ==
    SelectCandidates(tbl, word, word)

\* the search over the words that ends with every stored pair as candidates
\* when no word matched
RECURSIVE WordSearchAnyPair(_, _, _, _)
WordSearchAnyPair(tbl, words, k, fault) ==
    IF k > Len(words)
    THEN { [rows |-> SelectStart(tbl), fault |-> fault] }
    ELSE UNION {
           IF startCandidates.rows # {}
           THEN { [rows |-> startCandidates.rows, fault |-> fault] }
           ELSE WordSearchAnyPair(tbl, words, k + 1, fault \/ startCandidates.fault)
           : startCandidates \in dbAll(FindNodesContaining(tbl, words[k])) }

\* for (const word of words) { startCandidates = dbAll(...); if (...) break; }
\* from the k-th word on: the candidate sets the loop can end with
RECURSIVE WordSearch(_, _, _, _)
WordSearch(tbl, words, k, fault) ==
    IF k > Len(words)
    THEN { [rows |-> {}, fault |-> fault] }
    ELSE UNION {
           IF startCandidates.rows # {}
           THEN { [rows |-> startCandidates.rows, fault |-> fault] }
           ELSE WordSearch(tbl, words, k + 1, fault \/ startCandidates.fault)
           : startCandidates \in dbAll(FindNodesContaining(tbl, words[k])) }

\* lines 249-264: the start candidates of the input's words
StartCandidates(tbl, words) ==
    UNION {
      IF startCandidates.rows # {}
      THEN { [rows |-> startCandidates.rows, fault |-> FALSE] }
      ELSE WordSearch(tbl, words, 1, startCandidates.fault)
      : startCandidates \in dbAll(FirstCandidates(tbl, words)) }

\* the loop of lines 279-290, as MarkovLoop
RECURSIVE ResponseLoop(_, _, _, _, _, _)
ResponseLoop(tbl, sentence, prefix1, prefix2, i, maxWords) ==
    IF i >= maxWords
    THEN { [sentence |-> sentence, fault |-> FALSE] }
    ELSE UNION {
           IF suffixes.rows = {}
           THEN { [sentence |-> sentence, fault |-> suffixes.fault] }
           ELSE UNION { ResponseLoop(tbl, Append(sentence, nextSuffix),
                                     prefix2, nextSuffix, i + 1, maxWords)
                        : nextSuffix \in suffixes.rows }
           : suffixes \in dbAll(SelectSuffix(tbl, prefix1, prefix2)) }

\* return await generateMarkovSentence(): maxWords left to its default, the
\* longest walk
FallbackDefaultLength(tbl, maxWords, path, seeded, fault) ==
    { [kind |-> path, threw |-> FALSE, ret |-> g.ret, sentence |-> g.sentence,
       seeded |-> seeded, inner |-> g.kind, fault |-> fault \/ g.fault]
      : g \in generateMarkovSentence(tbl, MaxWords) }

\* the short result is kept: generateMarkovSentence is not called for it
FallbackKeepsSeeded(tbl, maxWords, path, seeded, fault) ==
    IF path = "short_result"
    THEN { [kind |-> path, threw |-> FALSE, ret |-> Join(seeded), sentence |-> seeded,
            seeded |-> seeded, inner |-> "none", fault |-> fault] }
    ELSE { [kind |-> path, threw |-> FALSE, ret |-> g.ret, sentence |-> g.sentence,
            seeded |-> seeded, inner |-> g.kind, fault |-> fault \/ g.fault]
           : g \in generateMarkovSentence(tbl, maxWords) }

\* return await generateMarkovSentence(maxWords), reached on `path`
Fallback(tbl, maxWords, path, seeded, fault) ==
    { [kind |-> path, threw |-> FALSE, ret |-> g.ret, sentence |-> g.sentence,
       seeded |-> seeded, inner |-> g.kind, fault |-> fault \/ g.fault]
      : g \in generateMarkovSentence(tbl, maxWords) }

\* lines 235-299, the body of the try: every outcome, a throw included
ResponseBody(tbl, tok, inputMessage, maxWords) ==
    IF ~tok
    THEN { [kind |-> "not_ready", threw |-> FALSE, ret |-> NotReady, sentence |-> <<>>,
            seeded |-> <<>>, inner |-> "none", fault |-> FALSE] }
    ELSE LET t == Tokenize(inputMessage) IN
         IF t.threw
         THEN { [kind |-> "throw", threw |-> TRUE, ret |-> "", sentence |-> <<>>,
                 seeded |-> <<>>, inner |-> "none", fault |-> FALSE] }
         ELSE LET words == SurfaceForms(t.tokens) IN
              IF Len(words) < 2
              THEN Fallback(tbl, maxWords, "short_input", <<>>, FALSE)
              ELSE UNION {
                     IF c.rows = {}
                     THEN Fallback(tbl, maxWords, "no_candidate", <<>>, c.fault)
                     ELSE UNION {
                            UNION {
                              IF Len(Join(w.sentence)) < 10
                              THEN Fallback(tbl, maxWords, "short_result", w.sentence,
                                            c.fault \/ w.fault)
                              ELSE { [kind |-> "seeded", threw |-> FALSE,
                                      ret |-> Join(w.sentence), sentence |-> w.sentence,
                                      seeded |-> w.sentence, inner |-> "none",
                                      fault |-> c.fault \/ w.fault] }
                              : w \in ResponseLoop(tbl, <<startPoint[1], startPoint[2]>>,
                                                   startPoint[1], startPoint[2], 0, maxWords) }
                            : startPoint \in c.rows }
                     : c \in StartCandidates(tbl, words) }

\* a handler that lets the error through
Rethrow(o) == o

\* catch (error) { ...; return ErrResponse } of lines 300-303
CatchResponse(o) ==
    IF o.threw
    THEN [o EXCEPT !.kind = "error", !.threw = FALSE, !.ret = ErrResponse]
    ELSE o

\* if (words.length < 2) { return '' }: a short input is answered with the
\* empty string
ShortInputReturnsEmpty(tbl, tok, inputMessage, maxWords) ==
    { IF o.kind = "short_input"
      THEN [o EXCEPT !.ret = "", !.sentence = <<>>, !.inner = "none"]
      ELSE CatchResponse(o)
      : o \in ResponseBody(tbl, tok, inputMessage, maxWords) }

\* every outcome of generateResponseFromMessage(inputMessage, maxWords)
generateResponseFromMessage(tbl, tok, inputMessage, maxWords) ==
    { CatchResponse(o) : o \in ResponseBody(tbl, tok, inputMessage, maxWords) }

----------------------------------------------------------------------------
(* Statistics: handleStatsCommand                                          *)

\* SELECT COUNT(*) as count FROM markov_chain
CountAll(tbl) == BagCardinality(tbl)

\* SELECT COUNT(DISTINCT prefix1 || prefix2) as count FROM markov_chain
CountDistinctPrefixes(tbl) ==
    Cardinality({ r[1] \o r[2] : r \in Rows(tbl) })

\* the two numbers of the reply; a failed read counts as 0 (`?.count || 0`)
StatsReplies(tbl) ==
    { [kind |-> "stats",
       totalChains |-> IF f1 THEN 0 ELSE CountAll(tbl),
       uniquePrefixes |-> IF f2 THEN 0 ELSE CountDistinctPrefixes(tbl),
       fault |-> f1 \/ f2]
      : f1 \in BOOLEAN, f2 \in BOOLEAN }

----------------------------------------------------------------------------
(* Actions.  call and reply record the last operation for the properties;  *)
(* no handler reads them.  A new operation starts from call.op = "none",   *)
(* which Forget restores; a crawl may also be repeated on the same batch.  *)

Idle == [op |-> "none"]
NoReply == [kind |-> "none"]

\* no handler has started
NoCrawlTask == [pc |-> "idle"]
NoGenerateTask == [pc |-> "idle"]

\* the user is in no voice channel
NoVoiceState == [channelId |-> "none", mute |-> FALSE]

Init ==
    /\ tokenizer = FALSE
    /\ markov_chain = EmptyBag
    /\ call = Idle
    /\ reply = NoReply
    /\ running = "none"
    /\ crawlTask = NoCrawlTask
    /\ generateTask = NoGenerateTask
    /\ committed = EmptyBag
    /\ userMuteStartTime = -1
    /\ voiceState = NoVoiceState
    /\ guilds = 1
    /\ inactiveChannel = TRUE
    /\ mutedFor = -1
    /\ setChannel = FALSE
    /\ lastMuted = -1
    /\ autoResponseMode = "random"
    /\ timers = EmptyBag
    /\ adminUserId = ""

\* the build callback of kuromoji.builder(...).build
TokenizerReady ==
    /\ ~tokenizer
    /\ tokenizer' = TRUE
    /\ UNCHANGED <<markov_chain, call, reply, besideEngine>>

\* handleCrawlingCommand without the check of lines 316-319: every call of
\* tokenizer.tokenize throws inside the try of lines 380-398, every record is
\* skipped and the empty transaction commits
CrawlUnchecked(messages, faults, repeats) ==
    LET r == IF tokenizer
             THEN Transaction(markov_chain, messages, faults)
             ELSE [tbl |-> markov_chain, committed |-> ~faults.begin /\ ~faults.commit,
                   processedMessages |-> 0, insertedChains |-> 0, runs |-> <<>>]
    IN  /\ call' = [op |-> "crawling", messages |-> messages, faults |-> faults,
                    before |-> markov_chain, repeats |-> repeats, runs |-> r.runs]
        /\ markov_chain' = r.tbl
        /\ reply' = IF r.committed
                    THEN [kind |-> "crawl_done",
                          processedMessages |-> r.processedMessages,
                          insertedChains |-> r.insertedChains]
                    ELSE [kind |-> "crawl_error"]
        /\ UNCHANGED <<tokenizer, besideEngine>>

\* handleCrawlingCommand, from the fetched messages on
\* call.repeats: the operation before was a crawl of the same batch that
\* replied crawl_done; call.runs: the rows insertStmt.run was given and took
Crawl(messages, faults, repeats) ==
    /\ IF ~tokenizer
       THEN /\ call' = [op |-> "crawling", messages |-> messages, faults |-> faults,
                        before |-> markov_chain, repeats |-> repeats, runs |-> <<>>]
            /\ reply' = [kind |-> "tokenizer_not_ready"]
            /\ UNCHANGED markov_chain
       ELSE LET r == Transaction(markov_chain, messages, faults) IN
            /\ call' = [op |-> "crawling", messages |-> messages, faults |-> faults,
                        before |-> markov_chain, repeats |-> repeats, runs |-> r.runs]
            /\ markov_chain' = r.tbl
            /\ reply' = IF r.committed
                        THEN [kind |-> "crawl_done",
                              processedMessages |-> r.processedMessages,
                              insertedChains |-> r.insertedChains]
                        ELSE [kind |-> "crawl_error"]
    /\ UNCHANGED <<tokenizer, besideEngine>>

Crawling ==
    /\ call = Idle
    /\ \E messages \in Batches :
         \E faults \in CrawlFaults(InsertCalls(messages)) : Crawl(messages, faults, FALSE)

\* /crawling once more while the channel still holds the same messages
CrawlingAgain ==
    /\ call.op = "crawling"
    /\ \E faults \in CrawlFaults(InsertCalls(call.messages)) :
         Crawl(call.messages, faults, reply.kind = "crawl_done")

\* a call of generateMarkovSentence(maxWords)
Generate ==
    /\ call = Idle
    /\ \E maxWords \in 0..MaxWords :
         \E o \in generateMarkovSentence(markov_chain, maxWords) :
            /\ call' = [op |-> "generate", maxWords |-> maxWords, before |-> markov_chain]
            /\ reply' = o
    /\ UNCHANGED <<tokenizer, markov_chain, besideEngine>>

\* a call of generateResponseFromMessage(inputMessage, maxWords)
Respond ==
    /\ call = Idle
    /\ \E inputMessage \in InputTexts, maxWords \in 0..MaxWords :
         \E o \in generateResponseFromMessage(markov_chain, tokenizer, inputMessage, maxWords) :
            /\ call' = [op |-> "respond", inputMessage |-> inputMessage,
                        maxWords |-> maxWords, before |-> markov_chain]
            /\ reply' = o
    /\ UNCHANGED <<tokenizer, markov_chain, besideEngine>>

\* handleStatsCommand
Stats ==
    /\ call = Idle
    /\ \E o \in StatsReplies(markov_chain) :
         /\ call' = [op |-> "stats", before |-> markov_chain]
         /\ reply' = o
    /\ UNCHANGED <<tokenizer, markov_chain, besideEngine>>

\* the record of the last operation is dropped
Forget ==
    /\ call # Idle
    /\ call' = Idle
    /\ reply' = NoReply
    /\ UNCHANGED <<tokenizer, markov_chain, besideEngine>>

Next ==
    \/ TokenizerReady
    \/ Crawling
    \/ CrawlingAgain
    \/ Generate
    \/ Respond
    \/ Stats
    \/ Forget

Spec == Init /\ [][Next]_vars

----------------------------------------------------------------------------
(* The statistics over messages whose prefix pairs share their letters:    *)
(* ("ab", "c") and ("a", "bc")                                             *)

NodeTexts == { "I like cats", "ab c d", "a bc d" }

NodeBatches == SeqsUpTo(NodeTexts, MaxBatchLen)

CrawlingNodes ==
    /\ call = Idle
    /\ \E messages \in NodeBatches :
         \E faults \in CrawlFaults(InsertCalls(messages)) : Crawl(messages, faults, FALSE)

NextNodes ==
    \/ TokenizerReady
    \/ CrawlingNodes
    \/ Stats
    \/ Forget

SpecNodes == Init /\ [][NextNodes]_vars

----------------------------------------------------------------------------
(* The crawl and the generation handler step by step.  A handler holds the *)
(* thread from one await to the next; between two awaits of one handler    *)
(* any other handler may run.  All reads and writes go through the one     *)
(* connection `db`, so a read sees the rows a transaction has inserted     *)
(* and not yet committed.                                                  *)

\* a function with an await for every message is given to db.transaction
AwaitPerMessage == TRUE

\* the function given to db.transaction (lines 373-403) has no await
AwaitInTransaction == FALSE

\* handleCrawlingCommand up to the await of line 368: the batch is fetched
CrawlFetched ==
    /\ tokenizer
    /\ running = "none"
    /\ crawlTask.pc = "idle"
    /\ \E messages \in Batches :
         \E faults \in CrawlFaults(InsertCalls(messages)) :
            crawlTask' = [pc |-> "fetched", messages |-> messages, faults |-> faults]
    /\ UNCHANGED <<engineVars, running, generateTask, committed, voiceVars, botVars>>

\* transaction(allMessages) is entered: BEGIN
TransactionBegin ==
    /\ running = "none"
    /\ crawlTask.pc = "fetched"
    /\ IF crawlTask.faults.begin
       THEN /\ crawlTask' = [pc |-> "failed"]
            /\ running' = "none"
       ELSE /\ crawlTask' = [pc |-> "in_transaction",
                             messages |-> crawlTask.messages,
                             faults |-> crawlTask.faults,
                             m |-> 1,
                             st |-> [tbl |-> markov_chain, processedMessages |-> 0,
                                     insertedChains |-> 0, calls |-> 0, runs |-> <<>>],
                             before |-> markov_chain]
            /\ running' = "crawl"
    /\ UNCHANGED <<engineVars, generateTask, committed, voiceVars, botVars>>

\* one turn of for (const msg of messages)
TransactionMessage ==
    /\ crawlTask.pc = "in_transaction"
    /\ crawlTask.m <= Len(crawlTask.messages)
    /\ running = "crawl" \/ (AwaitInTransaction /\ running = "none")
    /\ LET st == MessageLoop(crawlTask.st, <<crawlTask.messages[crawlTask.m]>>, 1,
                             crawlTask.faults.insert)
       IN  /\ crawlTask' = [crawlTask EXCEPT !.m = @ + 1, !.st = st]
           /\ markov_chain' = st.tbl
    /\ running' = IF AwaitInTransaction THEN "none" ELSE "crawl"
    /\ UNCHANGED <<tokenizer, call, reply, generateTask, committed, voiceVars, botVars>>

\* the function returns: COMMIT, or ROLLBACK when COMMIT throws; then the
\* await of line 410 or 414
TransactionCommit ==
    /\ crawlTask.pc = "in_transaction"
    /\ crawlTask.m > Len(crawlTask.messages)
    /\ running = "crawl" \/ (AwaitInTransaction /\ running = "none")
    /\ IF crawlTask.faults.commit
       THEN /\ markov_chain' = crawlTask.before
            /\ crawlTask' = [pc |-> "failed"]
            /\ UNCHANGED committed
       ELSE /\ crawlTask' = [pc |-> "done",
                             processedMessages |-> crawlTask.st.processedMessages,
                             insertedChains |-> crawlTask.st.insertedChains]
            /\ committed' = markov_chain
            /\ UNCHANGED markov_chain
    /\ running' = "none"
    /\ UNCHANGED <<tokenizer, call, reply, generateTask, voiceVars, botVars>>

\* interaction.editReply of line 410 or 414 has resolved
CrawlReplied ==
    /\ running = "none"
    /\ crawlTask.pc \in {"done", "failed"}
    /\ crawlTask' = NoCrawlTask
    /\ UNCHANGED <<engineVars, running, generateTask, committed, voiceVars, botVars>>

\* handleGenerateCommand up to await interaction.deferReply()
GenerateDeferred ==
    /\ running = "none"
    /\ generateTask.pc = "idle"
    /\ \E maxWords \in 0..MaxWords :
         generateTask' = [pc |-> "deferred", maxWords |-> maxWords]
    /\ UNCHANGED <<engineVars, running, crawlTask, committed, voiceVars, botVars>>

\* generateMarkovSentence, lines 205-212: the read of the start row
SentenceStart ==
    /\ running = "none"
    /\ generateTask.pc = "deferred"
    /\ \E startRow \in dbGet(SelectStart(markov_chain)) :
         IF startRow.row = Null
         THEN /\ generateTask' = [pc |-> "returned", maxWords |-> generateTask.maxWords,
                                  sentence |-> <<>>, ret |-> NoData,
                                  observed |-> {<<markov_chain, committed>>}]
              /\ running' = "none"
         ELSE /\ generateTask' = [pc |-> "walking", maxWords |-> generateTask.maxWords,
                                  sentence |-> <<startRow.row[1], startRow.row[2]>>,
                                  i |-> 0, observed |-> {<<markov_chain, committed>>}]
              /\ running' = "generate"
    /\ UNCHANGED <<engineVars, crawlTask, committed, voiceVars, botVars>>

\* one turn of the loop of lines 214-224, or its end and the return
SentenceStep ==
    /\ running = "generate"
    /\ generateTask.pc = "walking"
    /\ LET sentence == generateTask.sentence
           returned(observed) ==
               [pc |-> "returned", maxWords |-> generateTask.maxWords,
                sentence |-> sentence, ret |-> Join(sentence), observed |-> observed]
       IN  IF generateTask.i >= generateTask.maxWords
           THEN /\ generateTask' = returned(generateTask.observed)
                /\ running' = "none"
           ELSE \E suffixes \in dbAll(SelectSuffix(markov_chain, sentence[Len(sentence) - 1],
                                                   sentence[Len(sentence)])) :
                  IF suffixes.rows = {}
                  THEN /\ generateTask' = returned(generateTask.observed \cup {<<markov_chain, committed>>})
                       /\ running' = "none"
                  ELSE \E nextSuffix \in suffixes.rows :
                         /\ generateTask' =
                              [generateTask EXCEPT !.sentence = Append(sentence, nextSuffix),
                                                   !.i = @ + 1,
                                                   !.observed = @ \cup {<<markov_chain, committed>>}]
                         /\ running' = "generate"
    /\ UNCHANGED <<engineVars, crawlTask, committed, voiceVars, botVars>>

\* interaction.editReply of line 433 has resolved
GenerateReplied ==
    /\ running = "none"
    /\ generateTask.pc = "returned"
    /\ generateTask' = NoGenerateTask
    /\ UNCHANGED <<engineVars, running, crawlTask, committed, voiceVars, botVars>>

NextInterleave ==
    \/ TokenizerReady
    \/ CrawlFetched
    \/ TransactionBegin
    \/ TransactionMessage
    \/ TransactionCommit
    \/ CrawlReplied
    \/ GenerateDeferred
    \/ SentenceStart
    \/ SentenceStep
    \/ GenerateReplied

SpecInterleave == Init /\ [][NextInterleave]_vars

----------------------------------------------------------------------------
(* The three records of the specification's scenario                       *)

ScenarioBatch == <<"I like cats", "I like dogs", "I like birds">>

\* the batches a crawl fetches from a channel that holds the three records
\* in some order: the first n of them
ScenarioBatches ==
    { SubSeq(messages, 1, n)
      : messages \in { [i \in 1..3 |-> ScenarioBatch[f[i]]]
                       : f \in { g \in [1..3 -> 1..3] :
                                   \A i, j \in 1..3 : g[i] = g[j] => i = j } },
        n \in 0..3 }

ScenarioInputs == { "I like", "I like cats", "oh no" }

CrawlingScenario ==
    /\ call = Idle
    /\ \E messages \in ScenarioBatches :
         \E faults \in CrawlFaults(InsertCalls(messages)) : Crawl(messages, faults, FALSE)

RespondScenario ==
    /\ call = Idle
    /\ \E inputMessage \in ScenarioInputs, maxWords \in 0..MaxWords :
         \E o \in generateResponseFromMessage(markov_chain, tokenizer, inputMessage, maxWords) :
            /\ call' = [op |-> "respond", inputMessage |-> inputMessage,
                        maxWords |-> maxWords, before |-> markov_chain]
            /\ reply' = o
    /\ UNCHANGED <<tokenizer, markov_chain, besideEngine>>

NextScenario ==
    \/ TokenizerReady
    \/ CrawlingScenario
    \/ Generate
    \/ RespondScenario
    \/ Stats
    \/ Forget

SpecScenario == Init /\ [][NextScenario]_vars

----------------------------------------------------------------------------
(* Voice channel management: the voiceStateUpdate handler and the periodic *)
(* check, for one user.  Time is counted in minutes.  Of Date.now() and    *)
(* the timestamp of the Map only their difference is kept, up to the       *)
(* limit it is compared with.                                              *)

\* timeElapsed >= 30 * 60 * 1000
MuteLimit == 30
\* setInterval(..., 60 * 1000)
CheckInterval == 1

\* the voice channels of the user's guild; "inactive" is INACTIVE_CHANNEL_ID
VoiceChannels == { "room", "lounge", "inactive" }

\* a voice state: not connected (the mute flags are null), or in a channel
VoiceStates ==
    { NoVoiceState } \cup [channelId : VoiceChannels, mute : BOOLEAN]

\* CheckInterval minutes later
Later(minutes) ==
    IF minutes = -1 THEN -1
    ELSE IF minutes + CheckInterval >= MuteLimit THEN MuteLimit
    ELSE minutes + CheckInterval

\* the guild of the user among client.guilds.cache
UserGuild == 1

\* the loop over the guilds without the check of timeElapsed: a muted user
\* is moved at the first check
RECURSIVE GuildLoopNoLimit(_, _, _)
GuildLoopNoLimit(g, timeElapsed, st) ==
    IF g > guilds
    THEN st
    ELSE LET hasVoiceState == g = UserGuild /\ voiceState.channelId # "none" IN
         IF hasVoiceState /\ voiceState.channelId # "inactive"
         THEN IF voiceState.mute
              THEN IF inactiveChannel
                   THEN GuildLoopNoLimit(g + 1, timeElapsed,
                                         [entry |-> FALSE, moved |-> TRUE])
                   ELSE GuildLoopNoLimit(g + 1, timeElapsed, st)
              ELSE GuildLoopNoLimit(g + 1, timeElapsed, [st EXCEPT !.entry = FALSE])
         ELSE GuildLoopNoLimit(g + 1, timeElapsed, [st EXCEPT !.entry = FALSE])

\* client.guilds.cache.forEach(guild => { ... }) for the entry of the user,
\* from the g-th guild on; timeElapsed is Date.now() - muteStartTime of the
\* entry the for-of read; st = [entry, moved]: the entry is still in the Map,
\* setChannel was called
RECURSIVE GuildLoop(_, _, _)
GuildLoop(g, timeElapsed, st) ==
    IF g > guilds
    THEN st
    ELSE LET hasVoiceState == g = UserGuild /\ voiceState.channelId # "none" IN
         IF hasVoiceState /\ voiceState.channelId # "inactive"
         THEN IF voiceState.mute
              THEN IF timeElapsed >= MuteLimit /\ inactiveChannel
                   THEN GuildLoop(g + 1, timeElapsed, [entry |-> FALSE, moved |-> TRUE])
                   ELSE GuildLoop(g + 1, timeElapsed, st)
              ELSE GuildLoop(g + 1, timeElapsed, [st EXCEPT !.entry = FALSE])
         ELSE GuildLoop(g + 1, timeElapsed, [st EXCEPT !.entry = FALSE])

\* the callback of setInterval, CheckInterval minutes after the one before;
\* voiceState.setChannel(inactiveChannel) takes the user to the channel
PeriodicCheck ==
    /\ LET timeElapsed == Later(userMuteStartTime)
           st == IF userMuteStartTime = -1
                 THEN [entry |-> FALSE, moved |-> FALSE]
                 ELSE GuildLoop(1, timeElapsed, [entry |-> TRUE, moved |-> FALSE])
       IN  /\ userMuteStartTime' = IF st.entry THEN timeElapsed ELSE -1
           /\ voiceState' = IF st.moved
                            THEN [voiceState EXCEPT !.channelId = "inactive"]
                            ELSE voiceState
           /\ mutedFor' = IF st.moved THEN -1 ELSE Later(mutedFor)
           /\ setChannel' = st.moved
           /\ lastMuted' = Later(lastMuted)
    /\ UNCHANGED <<engineVars, taskVars, guilds, inactiveChannel, botVars>>

\* in a voice channel other than the inactive one, with selfMute || serverMute
MutedInChannel(state) ==
    state.channelId \notin {"none", "inactive"} /\ state.mute

\* the handler with userMuteStartTime.set on every event of a muted user
MuteRecordOnEveryEvent(oldState, newState, entry) ==
    LET wasMuted == oldState.mute
        isMuted == newState.mute
        afterMute == IF isMuted THEN 0
                     ELSE IF wasMuted /\ ~isMuted THEN -1
                     ELSE entry
    IN  IF newState.channelId # "none"
        THEN (IF newState.channelId = "inactive" THEN -1 ELSE afterMute)
        ELSE IF oldState.channelId # "none" THEN -1
        ELSE entry

\* the body of the voiceStateUpdate handler: the entry of the user in
\* userMuteStartTime after it, from the entry before it
MuteRecord(oldState, newState, entry) ==
    LET wasMuted == oldState.mute
        isMuted == newState.mute
        afterMute == IF ~wasMuted /\ isMuted THEN 0
                     ELSE IF wasMuted /\ ~isMuted THEN -1
                     ELSE entry
    IN  IF newState.channelId # "none"
        THEN (IF newState.channelId = "inactive" THEN -1 ELSE afterMute)
        ELSE IF oldState.channelId # "none" THEN -1
        ELSE entry

\* client.on('voiceStateUpdate', (oldState, newState) => { ... })
VoiceStateUpdate ==
    /\ \E newState \in VoiceStates \ {voiceState} :
         /\ newState.channelId = "inactive" => inactiveChannel
         /\ userMuteStartTime' = MuteRecord(voiceState, newState, userMuteStartTime)
         /\ voiceState' = newState
         /\ setChannel' = FALSE
         /\ lastMuted' = IF ~voiceState.mute /\ newState.mute THEN 0 ELSE lastMuted
         /\ mutedFor' = IF MutedInChannel(newState)
                        THEN (IF MutedInChannel(voiceState) THEN mutedFor ELSE 0)
                        ELSE -1
    /\ UNCHANGED <<engineVars, taskVars, guilds, inactiveChannel, botVars>>

\* the bot is in one guild or more; the user's guild has the inactive
\* channel or not
VoiceInit ==
    /\ tokenizer = FALSE
    /\ markov_chain = EmptyBag
    /\ call = Idle
    /\ reply = NoReply
    /\ running = "none"
    /\ crawlTask = NoCrawlTask
    /\ generateTask = NoGenerateTask
    /\ committed = EmptyBag
    /\ userMuteStartTime = -1
    /\ voiceState = NoVoiceState
    /\ guilds \in 1..MaxGuilds
    /\ inactiveChannel \in BOOLEAN
    /\ mutedFor = -1
    /\ setChannel = FALSE
    /\ lastMuted = -1
    /\ autoResponseMode = "random"
    /\ timers = EmptyBag
    /\ adminUserId = ""

VoiceNext ==
    \/ VoiceStateUpdate
    \/ PeriodicCheck

\* the timer fires again and again
SpecVoice == VoiceInit /\ [][VoiceNext]_vars /\ WF_vars(PeriodicCheck)

----------------------------------------------------------------------------
(* The slash commands and the automatic responses: the interactionCreate   *)
(* handler, the messageCreate handler up to its await of sendTyping, the   *)
(* rest of it, and the callback it hands to setTimeout.                    *)

\* how many automatic responses may be under way at once
MaxTimers == 1

\* the names of `const commands`, the commands deployCommands registers
Commands == { "crawling", "generate", "stats", "autoresponse" }

\* the choices of the option mode of /autoresponse
Modes == { "mention_only", "random", "disabled" }

\* the users who send commands; ADMIN_USER_ID is one of them or is not set
Users == { "u1", "u2" }

\* the case of the switch of interactionCreate that takes the command
Handler(commandName) ==
    CASE commandName = "crawling" -> "handleCrawlingCommand"
      [] commandName = "generate" -> "handleGenerateCommand"
      [] commandName = "autoresponse" -> "handleAutoResponseCommand"
      [] OTHER -> "default"

\* handleCrawlingCommand without the check of lines 308-314
CrawlingAnyUser(user, messages, faults) ==
    IF ~tokenizer
    THEN [tbl |-> markov_chain, fetched |-> FALSE,
          reply |-> [kind |-> "tokenizer_not_ready"]]
    ELSE LET r == Transaction(markov_chain, messages, faults) IN
         [tbl |-> r.tbl, fetched |-> TRUE,
          reply |-> IF r.committed
                    THEN [kind |-> "crawl_done",
                          processedMessages |-> r.processedMessages,
                          insertedChains |-> r.insertedChains]
                    ELSE [kind |-> "crawl_error"]]

\* handleCrawlingCommand for interaction.user.id = user: the table after it,
\* whether it fetched the messages of the channel, and its reply
handleCrawlingCommand(user, messages, faults) ==
    IF adminUserId # "" /\ user # adminUserId
    THEN [tbl |-> markov_chain, fetched |-> FALSE, reply |-> [kind |-> "admin_only"]]
    ELSE IF ~tokenizer
    THEN [tbl |-> markov_chain, fetched |-> FALSE,
          reply |-> [kind |-> "tokenizer_not_ready"]]
    ELSE LET r == Transaction(markov_chain, messages, faults) IN
         [tbl |-> r.tbl, fetched |-> TRUE,
          reply |-> IF r.committed
                    THEN [kind |-> "crawl_done",
                          processedMessages |-> r.processedMessages,
                          insertedChains |-> r.insertedChains]
                    ELSE [kind |-> "crawl_error"]]

\* the batch /crawling fetches in this specification
BotBatch == << "I like cats" >>

\* handleGenerateCommand: the sentence of its reply; inputText = "" is the
\* option left out, the option length is MaxWords
handleGenerateCommand(inputText) ==
    IF inputText # ""
    THEN { o.ret : o \in generateResponseFromMessage(markov_chain, tokenizer,
                                                     inputText, MaxWords) }
    ELSE { o.ret : o \in generateMarkovSentence(markov_chain, MaxWords) }

\* client.on('interactionCreate', ...) for a chat input command
InteractionCreate ==
    /\ \E commandName \in Commands, user \in Users :
        LET c == [op |-> "interaction", commandName |-> commandName, user |-> user,
                  before |-> markov_chain]
        IN  CASE Handler(commandName) = "handleCrawlingCommand" ->
                   \E faults \in CrawlFaults(InsertCalls(BotBatch)) :
                      LET r == handleCrawlingCommand(user, BotBatch, faults) IN
                      /\ call' = c
                      /\ reply' = r.reply @@ [fetched |-> r.fetched]
                      /\ markov_chain' = r.tbl
                      /\ UNCHANGED autoResponseMode
              [] Handler(commandName) = "handleGenerateCommand" ->
                   \E inputText \in {"", "I like cats"} :
                      \E sentence \in handleGenerateCommand(inputText) :
                         /\ call' = c
                         /\ reply' = [kind |-> "generated", sentence |-> sentence]
                         /\ UNCHANGED <<markov_chain, autoResponseMode>>
              [] Handler(commandName) = "handleAutoResponseCommand" ->
                   \E mode \in Modes :
                      /\ call' = c
                      /\ autoResponseMode' = mode
                      /\ reply' = [kind |-> "mode_set", mode |-> mode]
                      /\ UNCHANGED markov_chain
              [] OTHER ->
                   /\ call' = c
                   /\ reply' = [kind |-> "unknown_command"]
                   /\ UNCHANGED <<markov_chain, autoResponseMode>>
    /\ UNCHANGED <<tokenizer, taskVars, voiceVars, timers, adminUserId>>

\* the contents of the incoming messages: the three legacy commands, five
\* characters, and more than five
MessageContents == { "!crawling", "!generate", "!stats", "hello", "I like cats" }

LegacyCommands == { "!crawling", "!generate", "!stats" }

\* shouldRespond of line 518 without the mode
ShouldRespondAnyMode(mode, isMentioned, draw) ==
    isMentioned \/ draw

\* shouldRespond of line 518; draw is Math.random() < 0.5
ShouldRespond(mode, isMentioned, draw) ==
    isMentioned \/ (mode = "random" /\ draw)

\* client.on('messageCreate', ...) up to `await channel.sendTyping()`; the
\* record it leaves in timers keeps what the callback closes over (content,
\* isMentioned) and, for the properties, the mode the message arrived in
MessageCreate ==
    /\ BagCardinality(timers) < MaxTimers
    /\ \E authorBot \in BOOLEAN, textBased \in BOOLEAN, content \in MessageContents,
          isMentioned \in BOOLEAN, draw \in BOOLEAN :
        /\ call' = [op |-> "message", authorBot |-> authorBot, textBased |-> textBased,
                    content |-> content, isMentioned |-> isMentioned,
                    mode |-> autoResponseMode]
        /\ IF authorBot \/ ~textBased
           THEN /\ reply' = [kind |-> "ignored"]
                /\ UNCHANGED timers
           ELSE IF content \in LegacyCommands
           THEN /\ reply' = [kind |-> "moved_to_slash_command"]
                /\ UNCHANGED timers
           ELSE IF /\ autoResponseMode # "disabled"
                   /\ Len(content) > 5
                   /\ ShouldRespond(autoResponseMode, isMentioned, draw)
           THEN /\ reply' = [kind |-> "typing"]
                /\ timers' = timers (+) SetToBag({[stage |-> "typing", content |-> content,
                                                   isMentioned |-> isMentioned,
                                                   mode |-> autoResponseMode]})
           ELSE /\ reply' = [kind |-> "no_response"]
                /\ UNCHANGED timers
    /\ UNCHANGED <<tokenizer, markov_chain, taskVars, voiceVars,
                   autoResponseMode, adminUserId>>

\* sendTyping resolves and setTimeout takes the callback, or sendTyping
\* rejects and the catch of line 541 logs it
SendTypingDone ==
    /\ \E t \in BagToSet(timers) :
        /\ t.stage = "typing"
        /\ \E rejected \in BOOLEAN :
            timers' = IF rejected
                      THEN timers (-) SetToBag({t})
                      ELSE (timers (-) SetToBag({t}))
                               (+) SetToBag({[t EXCEPT !.stage = "timeout"]})
    /\ UNCHANGED <<engineVars, taskVars, voiceVars, autoResponseMode, adminUserId>>

\* the callback of setTimeout, one to three seconds later
Timeout ==
    /\ \E t \in BagToSet(timers) :
        /\ t.stage = "timeout"
        /\ \E o \in generateResponseFromMessage(markov_chain, tokenizer,
                                                t.content, MaxWords) :
            /\ call' = [op |-> "timeout", timer |-> t]
            /\ reply' = [kind |-> IF t.isMentioned THEN "message_reply"
                                  ELSE "channel_send",
                         response |-> o.ret]
        /\ timers' = timers (-) SetToBag({t})
    /\ UNCHANGED <<tokenizer, markov_chain, taskVars, voiceVars,
                   autoResponseMode, adminUserId>>

\* ADMIN_USER_ID is one of the users or is not set
BotInit ==
    /\ tokenizer = FALSE
    /\ markov_chain = EmptyBag
    /\ call = Idle
    /\ reply = NoReply
    /\ running = "none"
    /\ crawlTask = NoCrawlTask
    /\ generateTask = NoGenerateTask
    /\ committed = EmptyBag
    /\ userMuteStartTime = -1
    /\ voiceState = NoVoiceState
    /\ guilds = 1
    /\ inactiveChannel = TRUE
    /\ mutedFor = -1
    /\ setChannel = FALSE
    /\ lastMuted = -1
    /\ autoResponseMode = "random"
    /\ timers = EmptyBag
    /\ adminUserId \in {""} \cup Users

BotNext ==
    \/ TokenizerReady
    \/ InteractionCreate
    \/ MessageCreate
    \/ SendTypingDone
    \/ Timeout

SpecBot == BotInit /\ [][BotNext]_vars

----------------------------------------------------------------------------
(* What the specification expects of a batch, stated from its records      *)

Words(text) == SurfaceForms(Tokenize(text).tokens)

\* a record that is non-empty, tokenizes without failure and has 3 tokens or more
Accepted(text) ==
    text # "" /\ ~Tokenize(text).threw /\ Len(Words(text)) >= 3

\* the window positions of a record whose three tokens are all non-empty
WindowPositions(text) ==
    { i \in 1..(Len(Words(text)) - 2) :
        Words(text)[i] # "" /\ Words(text)[i + 1] # "" /\ Words(text)[i + 2] # "" }

\* the triples of a record, one per window position, in order
RECURSIVE WindowsFrom(_, _)
WindowsFrom(text, i) ==
    IF i > Len(Words(text)) - 2 THEN <<>>
    ELSE (IF i \in WindowPositions(text)
          THEN << <<Words(text)[i], Words(text)[i + 1], Words(text)[i + 2]>> >>
          ELSE <<>>) \o WindowsFrom(text, i + 1)

\* the triples of a batch, record by record
RECURSIVE ExpectedRuns(_)
ExpectedRuns(messages) ==
    IF messages = <<>> THEN <<>>
    ELSE (IF Accepted(Head(messages)) THEN WindowsFrom(Head(messages), 1) ELSE <<>>)
         \o ExpectedRuns(Tail(messages))

Range(seq) == { seq[i] : i \in DOMAIN seq }

AcceptedCount(messages) ==
    Cardinality({ m \in DOMAIN messages : Accepted(messages[m]) })

\* a crawl whose transaction committed and replied with its report
CrawlDone == call.op = "crawling" /\ reply.kind = "crawl_done"

\* a crawl whose transaction ran (the tokenizer was ready)
CrawlRan == call.op = "crawling" /\ reply.kind # "tokenizer_not_ready"

\* an insertStmt.run call of the crawl threw
InsertFaulted == CrawlRan /\ call.faults.insert # {}

\* a call of one of the two generation functions has returned
Generated == call.op \in {"generate", "respond"}

----------------------------------------------------------------------------
(* C1..C10 *)

\* C1: in every reachable state no two rows of markov_chain hold the same
\* (prefix1, prefix2, suffix); a crawl all of whose triples are already stored
\* leaves the table as it was, and, when the storage does not fail, replies
\* with its report (0 new chains) and not with an error.
C1_UniqueTriples ==
    /\ \A row \in Rows(markov_chain) : CopiesIn(row, markov_chain) = 1
    /\ (CrawlRan /\ Range(ExpectedRuns(call.messages)) \subseteq Rows(call.before))
         => /\ markov_chain = call.before
            /\ (~call.faults.begin /\ call.faults.insert = {} /\ ~call.faults.commit)
                 => (reply.kind = "crawl_done" /\ reply.insertedChains = 0)

\* C1 witness: a committed crawl re-inserted two stored triples
C1_Witness ==
    /\ CrawlDone
    /\ Len(call.runs) >= 2
    /\ Range(call.runs) \subseteq Rows(call.before)

\* C2 (as claimed): when an insertStmt.run call of a batch throws, the table
\* after the crawl holds the triples it held before the crawl.
C2_AtomicOnUpsertFault ==
    InsertFaulted => Rows(markov_chain) = Rows(call.before)

\* C3 (as claimed): a crawl that repeats a committed crawl of the same batch
\* and commits reports 0 new chains and leaves the table as the first left it.
C3_IdempotentIngestion ==
    (CrawlDone /\ call.repeats)
        => (reply.insertedChains = 0 /\ Rows(markov_chain) = Rows(call.before))

\* C4: every word of a walk after its start pair continues the pair before
\* it: (w[k-2], w[k-1], w[k]) is a row of the table at the time of the call.
\* This holds for the returned sentence and for a seeded walk that was
\* discarded as too short.
ValidWalk(sentence, tbl) ==
    \A k \in 3..Len(sentence) :
        <<sentence[k - 2], sentence[k - 1], sentence[k]>> \in Rows(tbl)

C4_WalkValidity ==
    Generated =>
        /\ ValidWalk(reply.sentence, call.before)
        /\ call.op = "respond" => ValidWalk(reply.seeded, call.before)

\* C4 witness: a seeded walk that appended three words was returned
C4_Witness ==
    /\ call.op = "respond"
    /\ reply.kind = "seeded"
    /\ Len(reply.sentence) = 5

\* C5: the sentence a generation call returns has at most maxWords + 2 words,
\* also when seeded generation fell back to unseeded generation.
C5_BoundedLength ==
    Generated => Len(reply.sentence) <= call.maxWords + 2

\* C5 witness: seeded generation fell back and the walk used all of maxWords
C5_Witness ==
    /\ call.op = "respond"
    /\ reply.kind \in {"short_input", "no_candidate", "short_result"}
    /\ call.maxWords >= 1
    /\ Len(reply.sentence) = call.maxWords + 2

\* C6: every call of either generation function returns a string and lets no
\* error through: in every state, for every input and maxWords, each outcome
\* of the function is a returned string, and there is an outcome.
Returned(o) == ~o.threw /\ o.ret \in STRING

C6_GenerationTotal ==
    /\ Generated => Returned(reply)
    /\ call = Idle => \A maxWords \in 0..MaxWords :
         /\ generateMarkovSentence(markov_chain, maxWords) # {}
         /\ \A o \in generateMarkovSentence(markov_chain, maxWords) : Returned(o)
         /\ \A inputMessage \in InputTexts :
              /\ generateResponseFromMessage(markov_chain, tokenizer,
                                             inputMessage, maxWords) # {}
              /\ \A o \in generateResponseFromMessage(markov_chain, tokenizer,
                                                      inputMessage, maxWords) : Returned(o)

\* C6 witness: the tokenizer threw on the input of a seeded call, which
\* returned the error string
C6_Witness ==
    /\ call.op = "respond"
    /\ Tokenize(call.inputMessage).threw
    /\ reply.ret = ErrResponse

\* C7: generateMarkovSentence on an empty table returns the insufficient-data
\* string, whatever maxWords is, and throws nothing; so does the call of it
\* that seeded generation falls back to.
C7_EmptyStore ==
    /\ (call.op = "generate" /\ call.before = EmptyBag)
          => (reply.kind = "no_data" /\ reply.ret = NoData /\ ~reply.threw)
    /\ (call.op = "respond" /\ call.before = EmptyBag
          /\ reply.kind \in {"short_input", "no_candidate", "short_result"})
          => (reply.inner = "no_data" /\ reply.ret = NoData /\ ~reply.threw)

\* C7 witness: an unseeded call on the empty table, with no read fault
C7_Witness ==
    /\ call.op = "generate"
    /\ call.before = EmptyBag
    /\ call.maxWords = MaxWords
    /\ ~reply.fault

\* C8 (as claimed): a committed crawl gave insertStmt.run, for every accepted
\* record of n tokens, one triple per window position 0..n-3 whose three
\* tokens are non-empty, and nothing else; all of them are rows afterwards.
C8_TrigramCompleteness ==
    CrawlDone =>
        /\ call.runs = ExpectedRuns(call.messages)
        /\ Range(ExpectedRuns(call.messages)) \subseteq Rows(markov_chain)

\* C9 (as claimed): the report of a committed crawl counts the accepted
\* records, and the rows the table gained.
C9_IngestionReport ==
    CrawlDone =>
        /\ reply.processedMessages = AcceptedCount(call.messages)
        /\ reply.insertedChains = CountAll(markov_chain) - CountAll(call.before)

\* C10: no operation removes a row: after a crawl every row of before is
\* still there, as often as before; generation and statistics leave the
\* table exactly as it was.
C10_StoreOnlyGrows ==
    /\ call.op = "crawling" =>
          \A row \in Rows(call.before) :
              CopiesIn(row, markov_chain) >= CopiesIn(row, call.before)
    /\ call.op \in {"generate", "respond", "stats"} => markov_chain = call.before

\* C10 witness: a crawl added rows to a table that already held some
C10_Witness ==
    /\ CrawlDone
    /\ call.before # EmptyBag
    /\ reply.insertedChains >= 1

----------------------------------------------------------------------------
(* C11..C20 *)

\* what a call can return: the string and the words it was joined from
SentenceReturns(tbl, maxWords) ==
    { <<o.ret, o.sentence>> : o \in generateMarkovSentence(tbl, maxWords) }

ResponseReturns(tbl, inputMessage, maxWords) ==
    { <<o.ret, o.sentence>>
      : o \in generateResponseFromMessage(tbl, TRUE, inputMessage, maxWords) }

\* the same, with whether a read of the call failed
SentenceReads(tbl, maxWords) ==
    { <<o.ret, o.sentence, o.fault>> : o \in generateMarkovSentence(tbl, maxWords) }

ResponseReads(tbl, inputMessage, maxWords) ==
    { <<o.ret, o.sentence, o.fault>>
      : o \in generateResponseFromMessage(tbl, TRUE, inputMessage, maxWords) }

\* an input the ready tokenizer splits without failure
Splits(text) == ~Tokenize(text).threw

\* no token of the input is prefix1 or prefix2 of a row
NoTokenStored(tbl, text) ==
    \A k \in DOMAIN Words(text) :
        \A row \in Rows(tbl) : row[1] # Words(text)[k] /\ row[2] # Words(text)[k]

\* a seeded call that the tokenizer was ready for and split the input of
Responded == call.op = "respond" /\ reply.kind \notin {"not_ready", "error"}

\* C11: when no token of the input is prefix1 or prefix2 of a stored row,
\* generateResponseFromMessage returns what generateMarkovSentence returns on
\* the same table with the same maxWords: the reply of such a call is one of
\* the unseeded outcomes, reached without a start candidate, and over all
\* outcomes the two functions return the same set.
C11_FallbackOnNoMatch ==
    /\ (Responded /\ NoTokenStored(call.before, call.inputMessage))
         => /\ reply.kind \in {"short_input", "no_candidate"}
            /\ Len(Words(call.inputMessage)) >= 2 => reply.kind = "no_candidate"
            /\ <<reply.ret, reply.sentence>> \in SentenceReturns(call.before, call.maxWords)
    /\ call = Idle => \A inputMessage \in InputTexts, maxWords \in 0..MaxWords :
         (Splits(inputMessage) /\ NoTokenStored(markov_chain, inputMessage))
            => ResponseReturns(markov_chain, inputMessage, maxWords)
                 = SentenceReturns(markov_chain, maxWords)

\* C11 witness: an input of two tokens, neither of them stored, was answered
\* by an unseeded walk that appended a word
C11_Witness ==
    /\ Responded
    /\ Len(Words(call.inputMessage)) >= 2
    /\ NoTokenStored(call.before, call.inputMessage)
    /\ reply.inner = "sentence"
    /\ Len(reply.sentence) >= 3
    /\ call.maxWords < MaxWords

\* C12: an input of fewer than 2 tokens is answered by generateMarkovSentence
\* alone: the reply is an unseeded outcome and no seeded walk was made, and
\* over all outcomes the call returns what the unseeded call returns, with a
\* failed read exactly where the unseeded call has one (no other read is made).
C12_FallbackOnShortInput ==
    /\ (Responded /\ Len(Words(call.inputMessage)) < 2)
         => /\ reply.kind = "short_input"
            /\ reply.seeded = <<>>
            /\ <<reply.ret, reply.sentence, reply.fault>>
                  \in SentenceReads(call.before, call.maxWords)
    /\ call = Idle => \A inputMessage \in InputTexts, maxWords \in 0..MaxWords :
         (Splits(inputMessage) /\ Len(Words(inputMessage)) < 2)
            => ResponseReads(markov_chain, inputMessage, maxWords)
                 = SentenceReads(markov_chain, maxWords)

\* C12 witness: an input of one token on a table with rows, answered by a walk
C12_Witness ==
    /\ Responded
    /\ Len(Words(call.inputMessage)) = 1
    /\ call.before # EmptyBag
    /\ reply.inner = "sentence"

\* C13: a seeded walk whose joined string has fewer than 10 characters is
\* discarded and generateMarkovSentence is called in its place; the seeded
\* walk is what the call returns only when its string has 10 characters or
\* more.  Where a walk can come out short, everything the unseeded call can
\* return the seeded call can return.
C13_ShortResultSubstitution ==
    /\ call.op = "respond" =>
         /\ reply.kind = "seeded"
              => (Len(reply.ret) >= 10 /\ reply.ret = Join(reply.seeded))
         /\ (reply.seeded # <<>> /\ Len(Join(reply.seeded)) < 10)
              => reply.kind = "short_result"
         /\ reply.kind = "short_result"
              => /\ Len(Join(reply.seeded)) < 10
                 /\ \E g \in generateMarkovSentence(call.before, call.maxWords) :
                       /\ g.kind = reply.inner
                       /\ g.ret = reply.ret
                       /\ g.sentence = reply.sentence
    /\ (call = Idle /\ tokenizer) => \A inputMessage \in InputTexts, maxWords \in 0..MaxWords :
         (\E o \in generateResponseFromMessage(markov_chain, TRUE, inputMessage, maxWords) :
             o.kind = "short_result")
            => SentenceReturns(markov_chain, maxWords)
                 \subseteq ResponseReturns(markov_chain, inputMessage, maxWords)

\* C13 witness: a seeded walk of 9 characters was discarded and a longer
\* unseeded walk returned
C13_Witness ==
    /\ call.op = "respond"
    /\ reply.kind = "short_result"
    /\ Len(Join(reply.seeded)) = 9
    /\ Len(reply.ret) >= 10

\* the records of a batch on which tokenizer.tokenize throws
TokenizeFails(text) == text # "" /\ Tokenize(text).threw

FailedRecords(messages) == { m \in DOMAIN messages : TokenizeFails(messages[m]) }

\* the batch without them
RECURSIVE OtherRecords(_)
OtherRecords(messages) ==
    IF messages = <<>> THEN <<>>
    ELSE (IF TokenizeFails(Head(messages)) THEN <<>> ELSE <<Head(messages)>>)
         \o OtherRecords(Tail(messages))

\* no statement of the crawl's transaction failed
NoStorageFault ==
    ~call.faults.begin /\ call.faults.insert = {} /\ ~call.faults.commit

\* C14: a crawl over a batch with a record on which tokenize throws.  When
\* no statement of the transaction fails, the batch commits, every triple of
\* the other accepted records is a row afterwards, insertStmt.run was given
\* the triples of those records only, and the report counts those records
\* only.  Whatever the storage does, the crawl ends as the crawl of the batch
\* without the failed records ends: same table, same report, same inserts.
C14_TokenizeFailureSkipsRecord ==
    (CrawlRan /\ FailedRecords(call.messages) # {}) =>
        /\ NoStorageFault =>
              /\ CrawlDone
              /\ call.runs = ExpectedRuns(OtherRecords(call.messages))
              /\ Range(ExpectedRuns(OtherRecords(call.messages))) \subseteq Rows(markov_chain)
              /\ reply.processedMessages = AcceptedCount(OtherRecords(call.messages))
              /\ reply.processedMessages
                   <= Len(call.messages) - Cardinality(FailedRecords(call.messages))
        /\ LET r == Transaction(call.before, OtherRecords(call.messages), call.faults) IN
              /\ markov_chain = r.tbl
              /\ call.runs = r.runs
              /\ r.committed = CrawlDone
              /\ CrawlDone => /\ reply.processedMessages = r.processedMessages
                              /\ reply.insertedChains = r.insertedChains

\* C14 witness: a batch of a failing record and an accepted one committed,
\* with the triple of the accepted record as a new row
C14_Witness ==
    /\ CrawlDone
    /\ NoStorageFault
    /\ FailedRecords(call.messages) # {}
    /\ reply.processedMessages = 1
    /\ reply.insertedChains >= 1

\* the replies of an operation that found no tokenizer
NotReadyReports ==
    ~tokenizer =>
        /\ call.op = "crawling"
             => (reply.kind = "tokenizer_not_ready" /\ markov_chain = call.before)
        /\ call.op = "respond"
             => /\ reply.kind = "not_ready"
                /\ ~reply.threw
                /\ reply.ret = NotReady
                /\ reply.ret \notin {NoData, ErrSentence, ErrResponse}
                /\ markov_chain = call.before
        /\ \A inputMessage \in InputTexts, maxWords \in 0..MaxWords :
             \A o \in generateResponseFromMessage(markov_chain, FALSE, inputMessage, maxWords) :
                 ~o.threw /\ o.ret = NotReady

\* C15: while tokenizer is unset, /crawling replies that the tokenizer is
\* not ready (neither the report nor the error reply) and
\* generateResponseFromMessage returns the not-ready string, which is none of
\* the insufficient-data and error strings; neither throws and the table is
\* left as it was.  A step never unsets a tokenizer that is set.
C15_TokenizerUnready ==
    [][(tokenizer => tokenizer') /\ NotReadyReports']_vars

\* C15 witness: a crawl over a batch with an accepted record was refused
\* while the tokenizer was unset
C15_Witness ==
    /\ ~tokenizer
    /\ call.op = "crawling"
    /\ AcceptedCount(call.messages) >= 1
    /\ reply.kind = "tokenizer_not_ready"

\* the distinct ordered pairs (prefix1, prefix2) of a table
PrefixPairs(tbl) == { <<row[1], row[2]>> : row \in Rows(tbl) }

\* C16 (as claimed): the second number of the statistics reply, when its
\* query did not fail, is the number of distinct ordered pairs
\* (prefix1, prefix2) of the table.
C16_CountDistinctNodes ==
    (call.op = "stats" /\ ~reply.fault)
        => reply.uniquePrefixes = Cardinality(PrefixPairs(call.before))

\* C17: whatever the order in which the steps of a crawl and of a generation
\* call are taken, every read of the generation call saw the table as the
\* last COMMIT had left it (the one before a batch or the one a batch
\* committed, never the rows of a transaction in progress), and no two rows
\* of the table are the same triple, inside a transaction too.
C17_IsolationUnderInterleaving ==
    /\ generateTask.pc \in {"walking", "returned"}
         => \A read \in generateTask.observed : read[1] = read[2]
    /\ \A row \in Rows(markov_chain) : CopiesIn(row, markov_chain) = 1

\* C17 witness: a generation call walked the table a batch had committed
\* while the next crawl, its batch fetched, waited to be resumed
C17_Witness ==
    /\ generateTask.pc = "returned"
    /\ Len(generateTask.sentence) >= 3
    /\ crawlTask.pc = "fetched"
    /\ Len(crawlTask.messages) = 2

\* the batches that hold the records of a batch in another order
Permuted(messages) ==
    { [i \in DOMAIN messages |-> messages[f[i]]]
      : f \in { g \in [DOMAIN messages -> DOMAIN messages] :
                  \A i, j \in DOMAIN messages : g[i] = g[j] => i = j } }

\* C18 (as claimed): a committed crawl leaves the rows and reports the two
\* totals that the crawl of every permutation of its batch, from the same
\* table and with the storage behaving the same, leaves and reports.
C18_RecordOrderIndependence ==
    CrawlDone =>
        \A messages \in Permuted(call.messages) :
            LET r == Transaction(call.before, messages, call.faults) IN
            /\ r.committed
            /\ Rows(r.tbl) = Rows(markov_chain)
            /\ r.insertedChains = reply.insertedChains
            /\ r.processedMessages = reply.processedMessages

\* the scenario's table and strings
ScenarioRows ==
    { <<"I", "like", "cats">>, <<"I", "like", "dogs">>, <<"I", "like", "birds">> }

ScenarioStrings == { "Ilikecats", "Ilikedogs", "Ilikebirds" }

\* C19: the scenario, with the storage working.  The crawl of the three
\* records into the empty table commits and leaves exactly the three
\* triples, one row each, of one distinct prefix pair, which the statistics
\* reply as 3 and 1.  On that table the walk from (I, like) with
\* maxWords = 1, in either generation function, ends in each of the three
\* strings and in no other, and so do the two functions as a whole
\* (generateResponseFromMessage on the input "I like").
C19_Scenario ==
    /\ (CrawlDone /\ call.messages = ScenarioBatch /\ call.before = EmptyBag
           /\ NoStorageFault)
         => /\ markov_chain = SetToBag(ScenarioRows)
            /\ reply.processedMessages = 3
            /\ reply.insertedChains = 3
    /\ Rows(markov_chain) = ScenarioRows
         => /\ Cardinality(PrefixPairs(markov_chain)) = 1
            /\ \A o \in StatsReplies(markov_chain) :
                   ~o.fault => (o.totalChains = 3 /\ o.uniquePrefixes = 1)
            /\ { Join(w.sentence)
                   : w \in { x \in MarkovLoop(markov_chain, <<"I", "like">>, "I", "like", 0, 1)
                               : ~x.fault } } = ScenarioStrings
            /\ { Join(w.sentence)
                   : w \in { x \in ResponseLoop(markov_chain, <<"I", "like">>, "I", "like", 0, 1)
                               : ~x.fault } } = ScenarioStrings
            /\ { o.ret : o \in { x \in generateMarkovSentence(markov_chain, 1) : ~x.fault } }
                 = ScenarioStrings
            /\ { o.ret : o \in { x \in generateResponseFromMessage(markov_chain, TRUE,
                                                                     "I like", 1)
                                   : ~x.fault } } = ScenarioStrings
    /\ (Generated /\ Rows(call.before) = ScenarioRows /\ call.maxWords = 1 /\ ~reply.fault
           /\ (call.op = "respond" => call.inputMessage = "I like" /\ tokenizer))
         => reply.ret \in ScenarioStrings

\* C19 witness: after the crawl of the scenario the seeded call on "I like"
\* with maxWords = 1 returned its own walk, the one string of 10 characters
C19_Witness ==
    /\ call.op = "respond"
    /\ call.before = SetToBag(ScenarioRows)
    /\ call.inputMessage = "I like"
    /\ call.maxWords = 1
    /\ reply.kind = "seeded"
    /\ reply.ret = "Ilikebirds"

\* the user has stayed muted in a channel other than the inactive one for
\* MuteLimit minutes or more, in a guild that has the inactive channel
Overdue == mutedFor >= MuteLimit /\ inactiveChannel

\* C20 (as claimed): a user does not stay overdue for ever: whatever the
\* voice-state events and however many guilds the bot is in, the periodic
\* check moves a user who stays muted in a channel other than the inactive
\* one to the inactive channel.
C20_MutedUserEventuallyMoved ==
    []<>(~Overdue)

\* C21 (as claimed): a /stats interaction is answered with the statistics of
\* the store at that time, the number of entries and the number of distinct
\* prefix pairs, as every registered command goes to its own handler; it is
\* never answered with the reply to an unknown command.
C21_StatsAnswered ==
    (call.op = "interaction" /\ call.commandName = "stats")
        => (reply.kind = "stats" /\ reply \in StatsReplies(call.before))

\* the automatic responses under way
Pending == BagToSet(timers)

\* the conditions of an automatic response, on the record of a message
Gated(c) ==
    /\ ~c.authorBot
    /\ c.content \notin LegacyCommands
    /\ Len(c.content) > 5
    /\ c.mode # "disabled"
    /\ (c.isMentioned \/ c.mode = "random")

\* C22: an automatic response is started and scheduled for a message only if
\* its author is not a bot, it is none of the legacy commands, its content is
\* longer than 5 characters, the mode is not disabled, and the bot is
\* mentioned or the mode is random; a message that arrives in mode
\* mention_only and does not mention the bot never gets a response.
C22_AutoResponseGating ==
    [][ /\ \A t \in BagToSet(timers') :
             CopiesIn(t, timers') > CopiesIn(t, timers) =>
                IF t.stage = "typing"
                THEN /\ call'.op = "message"
                     /\ reply'.kind = "typing"
                     /\ Gated(call')
                     /\ t.content = call'.content
                     /\ t.isMentioned = call'.isMentioned
                     /\ t.mode = call'.mode
                     /\ call'.mode = autoResponseMode
                ELSE LET before == [t EXCEPT !.stage = "typing"] IN
                     CopiesIn(before, timers') < CopiesIn(before, timers)
        /\ (call'.op = "message" /\ call'.mode = "mention_only" /\ ~call'.isMentioned)
              => reply'.kind # "typing"
        /\ \A t \in BagToSet(timers') : ~(t.mode = "mention_only" /\ ~t.isMentioned)
        /\ call'.op = "timeout"
              => ~(call'.timer.mode = "mention_only" /\ ~call'.timer.isMentioned)
      ]_vars

\* C22 witness: the callback of setTimeout sent the response to a message that
\* arrived in mode mention_only and mentioned the bot
C22_Witness ==
    /\ call.op = "timeout"
    /\ call.timer.mode = "mention_only"
    /\ call.timer.isMentioned
    /\ reply.kind = "message_reply"

\* the pair of the last two words of a walk has a continuation in the table
LastPairContinues(sentence, tbl) ==
    SelectSuffix(tbl, sentence[Len(sentence) - 1], sentence[Len(sentence)]) # {}

\* the walks of the last generation call: the walk of the returned sentence
\* and the seeded walk, returned or discarded
WalksOfReply ==
    (IF Generated /\ Len(reply.sentence) >= 2 THEN {reply.sentence} ELSE {})
    \cup (IF call.op = "respond" /\ Len(reply.seeded) >= 2 THEN {reply.seeded} ELSE {})

\* every walk of either loop from a stored pair, for every maxWords
WalksFrom(tbl, maxWords) ==
    UNION { MarkovLoop(tbl, p, p[1], p[2], 0, maxWords)
            \cup ResponseLoop(tbl, p, p[1], p[2], 0, maxWords)
            : p \in SelectStart(tbl) }

\* C23 (as claimed): a walk that appended fewer than maxWords words stopped
\* at a pair that has no continuation in the store.
C23_EarlyStopOnlyAtDeadEnd ==
    \A w \in WalksOfReply :
        Len(w) < call.maxWords + 2 => ~LastPairContinues(w, call.before)

\* C23 (amended): every walk ends, with at most maxWords appended words; it
\* stops after fewer than maxWords only if the pair of its last two words
\* has no continuation in the store or the read of the continuations of that
\* pair failed; a walk none of whose reads failed and all of whose visited
\* pairs have a continuation appends exactly maxWords words.
C23_WalkTermination ==
    /\ \A w \in WalksOfReply :
         /\ Len(w) <= call.maxWords + 2
         /\ Len(w) < call.maxWords + 2
              => (~LastPairContinues(w, call.before) \/ reply.fault)
    /\ call = Idle => \A maxWords \in 0..MaxWords :
         /\ markov_chain # EmptyBag => WalksFrom(markov_chain, maxWords) # {}
         /\ \A w \in WalksFrom(markov_chain, maxWords) :
              /\ Len(w.sentence) <= maxWords + 2
              /\ Len(w.sentence) < maxWords + 2
                   => (~LastPairContinues(w.sentence, markov_chain) \/ w.fault)
              /\ (~w.fault /\ LastPairContinues(w.sentence, markov_chain))
                   => Len(w.sentence) = maxWords + 2
              /\ w.fault => Len(w.sentence) < maxWords + 2

\* C23 witness: an unseeded walk stopped before maxWords words at a pair that
\* has a continuation, on a failed read
C23_Witness ==
    /\ call.op = "generate"
    /\ reply.kind = "sentence"
    /\ reply.fault
    /\ Len(reply.sentence) < call.maxWords + 2
    /\ LastPairContinues(reply.sentence, call.before)

\* the inputs of seeded generation with two tokens or more
SeedInputs ==
    { t \in InputTexts : ~Tokenize(t).threw /\ Len(Words(t)) >= 2 }

\* C24 (as claimed): for an input of two tokens or more the first candidate
\* set of seeded generation is every stored pair one of whose components is
\* the last or the second-to-last token of the input, the union of the pairs
\* containing the one and the pairs containing the other.
C24_FirstCandidateSet ==
    call = Idle =>
        \A inputMessage \in SeedInputs :
            LET words == Words(inputMessage) IN
            FirstCandidates(markov_chain, words)
                = FindNodesContaining(markov_chain, words[Len(words)])
                    \cup FindNodesContaining(markov_chain, words[Len(words) - 1])

\* C25: whenever seeded generation returns its own walk, and not the sentence
\* of the fallback, the output begins with the two words of a prefix pair
\* stored at the time of the call, and one of the two is a token of the input.
C25_SeededStartRelevance ==
    (call.op = "respond" /\ reply.kind = "seeded") =>
        /\ Len(reply.sentence) >= 2
        /\ reply.ret = Join(reply.sentence)
        /\ <<reply.sentence[1], reply.sentence[2]>> \in SelectStart(call.before)
        /\ \/ reply.sentence[1] \in Range(Words(call.inputMessage))
           \/ reply.sentence[2] \in Range(Words(call.inputMessage))

\* C25 witness: seeded generation on "I like cats" returned a walk from the
\* pair (like, I), which is not the pair of the last two tokens
C25_Witness ==
    /\ call.op = "respond"
    /\ call.inputMessage = "I like cats"
    /\ reply.kind = "seeded"
    /\ reply.sentence[1] = "like"
    /\ reply.sentence[2] = "I"

\* a is the beginning of b
IsPrefix(a, b) ==
    Len(a) <= Len(b) /\ \A k \in 1..Len(a) : a[k] = b[k]

\* C26: an error of a read of the store becomes a neutral result and goes no
\* further: dbGet returns null and dbAll returns no rows, and no generation
\* call throws or reports an error because of it.  When the read of the start
\* pair fails, unseeded generation returns the no-data sentence; when a read
\* of the continuations fails, the walk ends as at a dead end and the words
\* collected so far are returned.
C26_ReadFaultDegradation ==
    /\ (Generated /\ reply.fault) => (Returned(reply) /\ reply.kind # "error")
    /\ (call.op = "generate" /\ reply.fault) =>
          \/ reply.kind = "no_data" /\ reply.ret = NoData
          \/ /\ reply.kind = "sentence"
             /\ reply.ret = Join(reply.sentence)
             /\ Len(reply.sentence) >= 2
             /\ Len(reply.sentence) < call.maxWords + 2
             /\ ValidWalk(reply.sentence, call.before)
    /\ call = Idle =>
          /\ \A o \in dbGet(SelectStart(markov_chain)) : o.fault => o.row = Null
          /\ \A p \in SelectStart(markov_chain) :
                \A o \in dbAll(SelectSuffix(markov_chain, p[1], p[2])) :
                    o.fault => o.rows = {}
          /\ \A maxWords \in 0..MaxWords :
                LET outcomes == SentenceBody(markov_chain, maxWords) IN
                /\ \A o \in outcomes : o.fault => ~o.threw
                /\ \E o \in outcomes : o.fault /\ o.ret = NoData
                /\ \A o \in outcomes :
                      (o.fault /\ o.kind = "sentence") =>
                          \E full \in outcomes :
                              /\ ~full.fault
                              /\ IsPrefix(o.sentence, full.sentence)

\* C26 witness: the read of the start pair failed on a table that has rows
\* and unseeded generation returned the no-data sentence
C26_Witness ==
    /\ call.op = "generate"
    /\ call.before # EmptyBag
    /\ reply.fault
    /\ reply.ret = NoData

\* C27: the periodic check moves the user to the inactive channel only when,
\* at that check, the Map holds a mute start of the user that is MuteLimit
\* minutes old or older, the user is muted, and the user is in a voice channel
\* other than the inactive one; a user who is not muted, not in a voice
\* channel, or already in the inactive channel is never moved.
C27_MoveOnlyWhenOverdue ==
    [][ setChannel' =>
          /\ userMuteStartTime # -1
          /\ Later(userMuteStartTime) >= MuteLimit
          /\ voiceState.mute
          /\ voiceState.channelId \notin {"none", "inactive"}
          /\ inactiveChannel
          /\ voiceState' = [voiceState EXCEPT !.channelId = "inactive"]
      ]_vars

\* C27 witness: the periodic check has just moved the user, who is now in the
\* inactive channel, still muted
C27_Witness ==
    /\ setChannel
    /\ voiceState.channelId = "inactive"
    /\ voiceState.mute
    /\ userMuteStartTime = -1

\* C28: in a sequence of voiceStateUpdate events in which each event's old
\* state is the state the event before left, userMuteStartTime has an entry
\* for the user only if the user's latest state is muted and in a voice
\* channel other than the inactive one, and the entry's timestamp is the time
\* of the user's latest change from not muted to muted: a move to another
\* channel while muted leaves it as it is.
C28_MuteRecord ==
    userMuteStartTime # -1 =>
        /\ MutedInChannel(voiceState)
        /\ lastMuted # -1
        /\ userMuteStartTime = lastMuted

\* C28 witness: the Map holds an entry set before the last periodic check
\* for a user who is muted in the lounge
C28_Witness ==
    /\ userMuteStartTime >= 1
    /\ userMuteStartTime < MuteLimit
    /\ voiceState = [channelId |-> "lounge", mute |-> TRUE]
    /\ ~setChannel
    /\ mutedFor = userMuteStartTime

\* this step is the callback of setTimeout sending its response
ResponseSent ==
    \E t \in BagToSet(timers) :
        /\ t.stage = "timeout"
        /\ timers' = timers (-) SetToBag({t})
        /\ call' = [op |-> "timeout", timer |-> t]
        /\ reply'.kind \in {"message_reply", "channel_send"}

\* C29 (as claimed): while the mode is disabled, as /autoresponse set it, no
\* automatic response is sent, however the messages, the changes of the mode
\* and the delayed callbacks interleave.
C29_NoResponseWhileDisabled ==
    [][ autoResponseMode = "disabled" => ~ResponseSent ]_vars

\* the last operation was a /crawling interaction of a user other than the
\* configured administrator
ForeignCrawl ==
    /\ call.op = "interaction"
    /\ call.commandName = "crawling"
    /\ adminUserId # ""
    /\ call.user # adminUserId

\* C30: when ADMIN_USER_ID is configured, a /crawling interaction of any other
\* user is refused before a message is fetched and leaves the table as it
\* was; only a /crawling interaction of the administrator changes the table.
C30_CrawlAuthorization ==
    [][ /\ ForeignCrawl' =>
              /\ reply'.kind = "admin_only"
              /\ ~reply'.fetched
              /\ markov_chain' = markov_chain
        /\ (adminUserId # "" /\ markov_chain' # markov_chain) =>
              /\ call'.op = "interaction"
              /\ call'.commandName = "crawling"
              /\ call'.user = adminUserId
              /\ reply'.fetched
      ]_vars

\* C30 witness: with an administrator configured and a table that already
\* has rows, another user's /crawling was refused
C30_Witness ==
    /\ ForeignCrawl
    /\ tokenizer
    /\ markov_chain # EmptyBag
    /\ reply.kind = "admin_only"

====
